---- MODULE Spec2Model ----
(***************************************************************************)
(* Model of the speech-to-keyboard pipeline of vibe-ai-keyboard            *)
(* (src/speech_to_keyboard.py, class SpeechToKeyboard; the commands and    *)
(* enhanced variants share the segmenter line for line).                   *)
(*                                                                         *)
(* Four threads act on the object: the main thread (run), the capture      *)
(* callback thread (audio_callback), the hotkey-listener thread            *)
(* (toggle_listening) and the consumer thread (process_audio, which calls  *)
(* recognize_and_type synchronously).                                      *)
(*                                                                         *)
(* Units: amplitudes and energies are in thousandths of full scale         *)
(* (0.01 is 10); multipliers are in tenths (1.5 is 15); the clock is in    *)
(* whole seconds; calibration_duration_seconds is held in milliseconds.    *)
(* A text is a sequence of one-character strings.                          *)
(***************************************************************************)
EXTENDS Integers, Sequences, FiniteSets, TLC

VARIABLES
    config,             \* self.config (load_config), fixed after construction
    config_file,        \* the configuration file load_config reads
    listening,          \* self.listening
    running,            \* self.running
    calibrating,        \* self.calibrating
    stream,             \* self.stream: "none" or "open"
    audio_queue,        \* self.audio_queue (queue.Queue, unbounded)
    pre_buffer,         \* self.pre_buffer (deque(maxlen=pre_buffer_size))
    noise_levels,       \* self.noise_levels (deque(maxlen=50))
    energy_threshold,   \* self.energy_threshold
    last_text,          \* self.last_text
    last_text_time,     \* self.last_text_time
    last_typed_text,    \* self.last_typed_text
    speech_frames,      \* process_audio local
    silence_count,      \* process_audio local
    speech_count,       \* process_audio local
    is_speaking,        \* process_audio local
    calibration_chunks, \* process_audio local
    pc,                 \* consumer thread: "off", "get", "recognize", "done"
    mainpc,             \* main thread: "init" (in __init__, before load_config),
                        \* then in run(): "start", "hotkeys", "loop", "exit"
    script,             \* the frames the capture device will deliver (<<>>: any)
    nextSeq,            \* frames delivered by the capture device so far
    toggles,            \* F9 presses so far
    now,                \* the wall clock, time.time()
    enabled,            \* CommandHandler.enabled (commands variant)
    cmd_log,            \* history: calls of CommandHandler.process_text
    cb_pending,         \* capture thread inside audio_callback, after the test of
                        \* the flags: the frame it is about to put, or <<>>
    hist,               \* history: frames given to the segmenter, with verdict,
                        \* segmenter state before, and whether the VAD was called
    calib_ids,          \* history: ids of the frames consumed by calibration
    pushed,             \* history: frames pushed to pre_buffer since its last clear
    submitted,          \* history: utterances handed to recognize_and_type
    arrivals,           \* history: transcripts that passed the text filter
    typed,              \* history: calls of keyboard_controller.type
    calls,              \* history: calls of self.model.transcribe, with the outcome
    discarded,          \* history: utterances finalized but too short to hand over
    abandoned,          \* history: ids buffered in an utterance when listening went off
    opened,             \* streams the capture device holds open
    hk_pc,              \* the hotkey thread in toggle_listening: "idle", "opening"
    captured            \* frames waiting in a stream opened without a callback

progVars == <<config, config_file, listening, running, calibrating, stream, audio_queue,
              pre_buffer, noise_levels, energy_threshold, last_text,
              last_text_time, last_typed_text>>
localVars == <<speech_frames, silence_count, speech_count, is_speaking,
               calibration_chunks, pc, mainpc>>
cmdVars == <<enabled, cmd_log>>
devVars == <<opened, hk_pc, captured>>
envVars == <<script, nextSeq, toggles, now, cb_pending, cmdVars, devVars>>
histVars == <<hist, calib_ids, pushed, submitted, discarded, arrivals, typed,
              calls, abandoned>>
vars == <<progVars, localVars, envVars, histVars>>

(***************************************************************************)
(* Bounds of the model.                                                    *)
(***************************************************************************)
\* frames the capture device delivers in one run
MaxFrames == 6
\* F9 presses in one run
MaxToggles == 2
\* the furthest the clock advances between two readings of time.time(): in
\* a whole run it stands still or advances that far, and recognize_and_type
\* on its own is exercised with every advance up to it
MaxTick == 2
\* calls of recognize_and_type when it is exercised on its own
MaxCalls == 3
\* frames in a scripted capture of every kind of frame
ScriptLen == 4

(***************************************************************************)
(* Program constants.                                                      *)
(***************************************************************************)
\* self.energy_threshold = 0.01
InitialEnergyThreshold == 10
\* max(0.01, noise_floor * noise_multiplier)
EnergyThresholdFloor == 10
\* deque(maxlen=50)
NoiseLevelsMaxlen == 50
\* self.duplicate_threshold = 2.0
duplicate_threshold == 2
\* np.max(np.abs(audio_np)) < 0.01
QuietPeak == 10

(***************************************************************************)
(* Texts.                                                                  *)
(***************************************************************************)
\* str.isalnum() on the characters the model uses
IsAlnum(c) ==
    c \in {"a", "b", "c", "d", "e", "h", "i", "k", "m", "n", "o", "p", "r",
           "s", "t", "u", "y", "E", "Y", "1"}

\* last_char in '.!?,:;'
IsSpacingPunct(c) == c \in {".", "!", "?", ",", ":", ";"}

\* str.isspace()
IsSpace(c) == c \in {" "}

RECURSIVE LStrip(_)
\* str.lstrip()
LStrip(s) == IF s # <<>> /\ IsSpace(Head(s)) THEN LStrip(Tail(s)) ELSE s

RECURSIVE RStrip(_)
\* str.rstrip()
RStrip(s) ==
    IF s # <<>> /\ IsSpace(s[Len(s)]) THEN RStrip(SubSeq(s, 1, Len(s) - 1)) ELSE s

\* str.strip()
Strip(s) == RStrip(LStrip(s))

\* the texts the transcription engine returns in the model
T_hi == <<" ", "h", "i", "!">>
T_abc == <<"a", "b", "c", " ">>
T_paren == <<"(", "a", ")">>
T_you == <<"y", "o", "u">>
T_um == <<"u", "m">>
T_You == <<"Y", "o", "u">>
T_ok == <<"o", "k">>
T_blank == <<" ">>

(***************************************************************************)
(* Configuration (load_config).                                            *)
(***************************************************************************)
\* default_config, with the false positives the model's texts can hit
DefaultConfig ==
    [ rate |-> 16000,
      chunk_size |-> 480,
      pre_buffer_chunks |-> 15,
      silence_threshold_chunks |-> 30,
      min_speech_chunks |-> 10,
      energy_threshold_multiplier |-> 15,
      noise_floor_multiplier |-> 3,
      speech_detection_threshold |-> 1,
      calibration_duration_ms |-> 2000,
      min_text_length |-> 2,
      false_positives |-> {<<>>, <<".">>, <<"!">>, <<"?">>, T_you, T_um} ]

\* configurations a speech_config.json can hold, small enough to explore
SmallConfigs ==
    { [DefaultConfig EXCEPT !.pre_buffer_chunks = 1,
                            !.silence_threshold_chunks = 1,
                            !.min_speech_chunks = 4,
                            !.calibration_duration_ms = 40],
      [DefaultConfig EXCEPT !.pre_buffer_chunks = 2,
                            !.silence_threshold_chunks = 2,
                            !.min_speech_chunks = 2,
                            !.speech_detection_threshold = 2,
                            !.calibration_duration_ms = 70],
      [DefaultConfig EXCEPT !.pre_buffer_chunks = 0,
                            !.silence_threshold_chunks = 1,
                            !.min_speech_chunks = 1,
                            !.calibration_duration_ms = 0] }

\* a configuration file: whether it exists, whether json.load accepts it,
\* and the settings it holds
ConfigFile(exists, parses, data) ==
    [exists |-> exists, parses |-> parses, data |-> data]

\* load_config(config_file)
load_config(file) ==
    IF file.exists
    THEN IF file.parses THEN file.data ELSE DefaultConfig
    ELSE DefaultConfig

\* self.silence_threshold
silence_threshold == config.silence_threshold_chunks
\* self.min_speech_chunks
min_speech_chunks == config.min_speech_chunks
\* self.pre_buffer_size
pre_buffer_size == config.pre_buffer_chunks
\* speech_threshold in process_audio
speech_threshold == config.speech_detection_threshold

\* int(calibration_duration * self.RATE / self.CHUNK)
CalibrationChunksNeeded(duration_ms, rate, chunk) ==
    (duration_ms * rate) \div (1000 * chunk)

\* calibration_chunks_needed in process_audio
calibration_chunks_needed ==
    CalibrationChunksNeeded(config.calibration_duration_ms, config.rate,
                            config.chunk_size)

(***************************************************************************)
(* Frames and buffers.                                                     *)
(***************************************************************************)
\* what a captured frame sounds like: RMS energy, peak amplitude, what
\* webrtcvad answers for it, and whether webrtcvad raises on it
SpeechKind == [energy |-> 300, peak |-> 600, vad |-> TRUE, raises |-> FALSE]
SilenceKind == [energy |-> 2, peak |-> 5, vad |-> FALSE, raises |-> FALSE]
FrameKinds == {SpeechKind, SilenceKind}

\* a loud frame that is not speech, a frame below the energy gate that
\* webrtcvad would take for speech, and a loud frame webrtcvad raises on
NoiseKind == [energy |-> 300, peak |-> 600, vad |-> FALSE, raises |-> FALSE]
WhisperKind == [energy |-> 12, peak |-> 30, vad |-> TRUE, raises |-> FALSE]
BadKind == [energy |-> 300, peak |-> 600, vad |-> TRUE, raises |-> TRUE]
AllFrameKinds == {SpeechKind, SilenceKind, NoiseKind, WhisperKind, BadKind}

\* the frame with sequence index n
Frame(n, kind) ==
    [id |-> n, energy |-> kind.energy, peak |-> kind.peak, vad |-> kind.vad,
     raises |-> kind.raises]

\* a slip: a deque without maxlen
DequeAppend_Unbounded(d, x, maxlen) == Append(d, x)

\* deque.append on a deque(maxlen=maxlen)
DequeAppend(d, x, maxlen) ==
    IF maxlen = 0 THEN d
    ELSE IF Len(d) >= maxlen THEN Append(Tail(d), x)
    ELSE Append(d, x)

RECURSIVE SumSeq(_)
SumSeq(s) == IF s = <<>> THEN 0 ELSE Head(s) + SumSeq(Tail(s))

\* np.mean(list(self.noise_levels)), to the thousandth
Mean(s) == SumSeq(s) \div Len(s)

Max(a, b) == IF a >= b THEN a ELSE b

RECURSIVE MaxPeak(_)
\* np.max(np.abs(audio_np)) of the joined frames
MaxPeak(frames) ==
    IF frames = <<>> THEN 0 ELSE Max(Head(frames).peak, MaxPeak(Tail(frames)))

\* calculate_energy
calculate_energy(chunk) == chunk.energy

\* a slip: the energy gate rejects nothing
BelowEnergyGate_Never(chunk) == FALSE

\* energy < self.energy_threshold * energy_multiplier
BelowEnergyGate(chunk) ==
    calculate_energy(chunk) * 10
        < energy_threshold * config.energy_threshold_multiplier

\* is_speech: whether self.vad.is_speech is called on the chunk
VadInvoked(chunk) == ~calibrating /\ ~BelowEnergyGate(chunk)

\* a slip: a frame the detector raises on counts as speech
VadVerdict_FailOpen(chunk) == IF chunk.raises THEN TRUE ELSE chunk.vad

\* return self.vad.is_speech(...), and except: return False
VadVerdict(chunk) == IF chunk.raises THEN FALSE ELSE chunk.vad

\* is_speech: the verdict
is_speech(chunk) ==
    IF calibrating THEN FALSE
    ELSE IF BelowEnergyGate(chunk) THEN FALSE
    ELSE VadVerdict(chunk)

\* a slip: the noise profile is fed after calibration as well
NoiseLevelsAfterIsSpeech_Always(chunk) ==
    DequeAppend(noise_levels, calculate_energy(chunk), NoiseLevelsMaxlen)

\* is_speech: its effect on self.noise_levels
NoiseLevelsAfterIsSpeech(chunk) ==
    IF calibrating
    THEN DequeAppend(noise_levels, calculate_energy(chunk), NoiseLevelsMaxlen)
    ELSE noise_levels

(***************************************************************************)
(* Post-filter and spacer (recognize_and_type).                            *)
(***************************************************************************)
\* a slip: the length of the text is not looked at
PassesTextFilter_AnyLength(text) ==
    text # <<>> /\ text \notin config.false_positives

\* text and text not in self.false_positives and len(text) > self.min_text_length
PassesTextFilter(text) ==
    /\ text # <<>>
    /\ text \notin config.false_positives
    /\ Len(text) > config.min_text_length

\* a slip: the age of the last accepted text is not looked at
IsDuplicate_AnyAge(text, current_time) == text = last_text

\* text == self.last_text and (current_time - self.last_text_time) < self.duplicate_threshold
IsDuplicate(text, current_time) ==
    /\ text = last_text
    /\ current_time - last_text_time < duplicate_threshold

\* last_char = self.last_typed_text.rstrip()[-1] if self.last_typed_text.rstrip() else ''
LastChar(last) == IF RStrip(last) # <<>> THEN RStrip(last)[Len(RStrip(last))] ELSE ""

\* a slip: the space is prepended whatever was typed before
TextToType_AlwaysSpaced(text, last) == <<" ">> \o text

\* text_to_type
TextToType(text, last) ==
    IF last # <<>>
       /\ LastChar(last) # ""
       /\ (IsSpacingPunct(LastChar(last)) \/ IsAlnum(LastChar(last)))
    THEN <<" ">> \o text
    ELSE text

\* time.time(), `tick` seconds after the clock was last read
ClockAfter(tick) == now + tick

\* what a call of self.model.transcribe does: it returns a text or raises
Returns(text) == [raises |-> FALSE, text |-> text, type_raises |-> FALSE]
Raises == [raises |-> TRUE, text |-> <<>>, type_raises |-> FALSE]

\* model.transcribe returns a text and keyboard_controller.type raises on it
TypeRaises(text) == [raises |-> FALSE, text |-> text, type_raises |-> TRUE]

\* a slip: a failed transcription forgets what was typed last
TranscribeFailed_ForgetsLast(call) ==
    /\ calls' = Append(calls, call)
    /\ last_typed_text' = <<>>
    /\ UNCHANGED <<last_text, last_text_time, arrivals, typed>>

\* except Exception as e: the error is logged and the call returns
TranscribeFailed(call) ==
    /\ calls' = Append(calls, call)
    /\ UNCHANGED <<last_text, last_text_time, last_typed_text, arrivals, typed>>

\* a slip: a duplicate refreshes the time of the guard
DuplicateIgnored_Refreshes(call, text, current_time) ==
    /\ calls' = Append(calls, call)
    /\ arrivals' = Append(arrivals,
            [text |-> text, time |-> current_time, accepted |-> FALSE,
             call |-> Len(calls) + 1])
    /\ last_text_time' = current_time
    /\ UNCHANGED <<last_text, last_typed_text, typed>>

\* [Duplicate ignored]: return
DuplicateIgnored(call, text, current_time) ==
    /\ calls' = Append(calls, call)
    /\ arrivals' = Append(arrivals,
            [text |-> text, time |-> current_time, accepted |-> FALSE,
             call |-> Len(calls) + 1])
    /\ UNCHANGED <<last_text, last_text_time, last_typed_text, typed>>

\* a slip: the text is sent to the keyboard twice
KeyboardType_Twice(entry) == <<entry, entry>>

\* self.keyboard_controller.type(text_to_type): the calls made
KeyboardType(entry) == <<entry>>

\* a slip: the text as it was typed, its space included, is remembered
LastTypedAfter_Spaced(text, text_to_type) == text_to_type

\* self.last_typed_text = text
LastTypedAfter(text, text_to_type) == text

\* a slip: no utterance is too quiet for the engine
TooQuiet_Never(audio_frames) == FALSE

\* if np.max(np.abs(audio_np)) < 0.01: return
TooQuiet(audio_frames) == MaxPeak(audio_frames) < QuietPeak

\* recognize_and_type(audio_frames) when the engine answers `result` and the
\* clock has advanced by `tick` when time.time() is read
recognize_and_type(audio_frames, result, tick) ==
    LET text == Strip(result.text)
        current_time == ClockAfter(tick)
        call == [raised |-> result.raises, text |-> text]
    IN  /\ now' = current_time
        /\ IF TooQuiet(audio_frames)
           THEN UNCHANGED <<last_text, last_text_time, last_typed_text,
                            arrivals, typed, calls>>
           ELSE IF result.raises
           THEN TranscribeFailed(call)
           ELSE IF ~PassesTextFilter(text)
           THEN /\ calls' = Append(calls, call)
                /\ UNCHANGED <<last_text, last_text_time, last_typed_text,
                               arrivals, typed>>
           ELSE IF IsDuplicate(text, current_time)
           THEN DuplicateIgnored(call, text, current_time)
           ELSE /\ calls' = Append(calls, call)
                /\ last_text' = text
                /\ last_text_time' = current_time
                /\ IF result.type_raises
                   THEN UNCHANGED <<typed, last_typed_text>>
                   ELSE /\ typed' = typed \o KeyboardType(
                               [sent |-> TextToType(text, last_typed_text),
                                text |-> text, before |-> last_typed_text,
                                time |-> current_time, call |-> Len(calls) + 1])
                        /\ last_typed_text' =
                               LastTypedAfter(text, TextToType(text, last_typed_text))
                /\ arrivals' = Append(arrivals,
                        [text |-> text, time |-> current_time, accepted |-> TRUE,
                         call |-> Len(calls) + 1])

\* what model.transcribe returns: in a whole run of the program, and when
\* recognize_and_type is exercised on its own
Transcripts == {T_hi, T_paren, T_you}
AllTranscripts == {T_hi, T_abc, T_paren, T_you, T_You, T_um, T_ok, T_blank}

\* the outcomes of a call of model.transcribe
Results(texts) == {Returns(t) : t \in texts} \cup {Raises}

\* the outcomes of model.transcribe followed by keyboard_controller.type
Outcomes(texts) == Results(texts) \cup {TypeRaises(t) : t \in texts}

(***************************************************************************)
(* Voice commands (speech_to_keyboard_commands.py, CommandHandler).        *)
(***************************************************************************)
\* enable_commands=False, enabled=False
DefaultEnableCommands == FALSE

\* str.lower() on the characters the model uses
LowerChar(c) == IF c = "E" THEN "e" ELSE IF c = "Y" THEN "y" ELSE c
Lower(text) == [i \in 1..Len(text) |-> LowerChar(text[i])]

RECURSIVE RStripPunct(_)
\* str.rstrip('.!?,;:')
RStripPunct(s) ==
    IF s # <<>> /\ s[Len(s)] \in {".", "!", "?", ",", ";", ":"}
    THEN RStripPunct(SubSeq(s, 1, Len(s) - 1))
    ELSE s

\* str.endswith
EndsWith(s, suffix) ==
    /\ Len(suffix) <= Len(s)
    /\ SubSeq(s, Len(s) - Len(suffix) + 1, Len(s)) = suffix

\* re.search of a literal pattern
Contains(s, pat) ==
    \E i \in 1..(Len(s) - Len(pat) + 1) : SubSeq(s, i, i + Len(pat) - 1) = pat

\* text[:-k] for k >= 1
DropLast(s, k) == SubSeq(s, 1, Len(s) - k)

\* entries of SAFE_COMMANDS, in the order of the dict
Cmd_enter == <<"e", "n", "t", "e", "r">>
Cmd_end == <<"e", "n", "d">>
Cmd_copy == <<"c", "o", "p", "y">>
SAFE_COMMANDS == <<Cmd_enter, Cmd_end, Cmd_copy>>

\* entries of BLOCKED_PATTERNS that are plain words
BLOCKED_PATTERNS == {<<"s", "u", "d", "o">>, <<"c", "m", "d">>}

\* a slip: no text is blocked
is_command_safe_Always(text) == TRUE

\* is_command_safe(text)
is_command_safe(text) ==
    ~(\E pat \in BLOCKED_PATTERNS : Contains(Lower(text), pat))

\* what process_text gives back: the text to type and the commands executed
Processed(returned, keys) == [returned |-> returned, keys |-> keys]

RECURSIVE TrailingCommand(_, _, _, _, _)
\* the loop over SAFE_COMMANDS.items() from its i-th entry on, for a text
\* that is not itself a command; `fails`: the key press raises
TrailingCommand(text, text_lower, text_cleaned, i, fails) ==
    IF i > Len(SAFE_COMMANDS) THEN Processed(text, <<>>)
    ELSE LET cmd == SAFE_COMMANDS[i]
             prefix == RStrip(DropLast(text,
                           Len(cmd) + (Len(text_lower) - Len(text_cleaned))))
         IN  IF ~EndsWith(text_cleaned, cmd)
             THEN TrailingCommand(text, text_lower, text_cleaned, i + 1, fails)
             ELSE IF prefix # <<>> THEN Processed(prefix, <<>>)
             ELSE IF ~fails THEN Processed(<<>>, <<cmd>>)
             ELSE TrailingCommand(text, text_lower, text_cleaned, i + 1, fails)

\* a slip: the enabled flag is not looked at
CommandsOff_Never(is_enabled) == FALSE

\* if not self.enabled
CommandsOff(is_enabled) == ~is_enabled

\* process_text(text); `fails`: the key press raises
process_text(text, fails) ==
    LET text_lower == Strip(Lower(text))
        text_cleaned == RStripPunct(text_lower)
        is_cmd == \E i \in 1..Len(SAFE_COMMANDS) : SAFE_COMMANDS[i] = text_cleaned
    IN  IF CommandsOff(enabled) THEN Processed(text, <<>>)
        ELSE IF ~is_command_safe(text) THEN Processed(<<>>, <<>>)
        ELSE IF is_cmd
        THEN IF ~fails THEN Processed(<<>>, <<text_cleaned>>)
             ELSE Processed(text, <<>>)
        ELSE TrailingCommand(text, text_lower, text_cleaned, 1, fails)

(***************************************************************************)
(* Initial state: the object after __init__, run() not yet entered.        *)
(***************************************************************************)
InitObject(configs, scripts, flags) ==
    /\ enabled \in flags
    /\ config_file \in {ConfigFile(TRUE, TRUE, c) : c \in configs}
    /\ config = load_config(config_file)
    /\ script \in scripts
    /\ listening = FALSE
    /\ running = TRUE
    /\ calibrating = TRUE
    /\ stream = "none"
    /\ audio_queue = <<>>
    /\ pre_buffer = <<>>
    /\ noise_levels = <<>>
    /\ energy_threshold = InitialEnergyThreshold
    /\ last_text = <<>>
    /\ last_text_time = 0
    /\ last_typed_text = <<>>
    /\ speech_frames = <<>>
    /\ silence_count = 0
    /\ speech_count = 0
    /\ is_speaking = FALSE
    /\ calibration_chunks = 0
    /\ pc = "off"
    /\ mainpc = "start"
    /\ nextSeq = 0
    /\ toggles = 0
    /\ now = 0
    /\ cb_pending = <<>>
    /\ cmd_log = <<>>
    /\ opened = 0
    /\ hk_pc = "idle"
    /\ captured = <<>>
    /\ hist = <<>>
    /\ calib_ids = <<>>
    /\ pushed = <<>>
    /\ submitted = <<>>
    /\ discarded = <<>>
    /\ arrivals = <<>>
    /\ typed = <<>>
    /\ calls = <<>>
    /\ abandoned = {}

\* the object as the program constructs it, commands off
InitWith(configs, scripts) ==
    InitObject(configs, scripts, {DefaultEnableCommands})

Init == InitWith(SmallConfigs, {<<>>})

(***************************************************************************)
(* Main thread: run().                                                     *)
(***************************************************************************)
\* start_audio_stream: the stream after the call
StreamAfterStart == IF stream = "none" THEN "open" ELSE stream

\* start_audio_stream: the streams open at the device after the call
OpenedAfterStart == IF stream = "none" THEN opened + 1 ELSE opened

\* stop_audio_stream: the streams open at the device after the call
OpenedAfterStop == IF stream = "none" THEN opened ELSE opened - 1

\* hotkey_listener = self.setup_hotkeys()
SetupHotkeys ==
    /\ mainpc = "start"
    /\ mainpc' = "hotkeys"
    /\ UNCHANGED <<progVars, speech_frames, silence_count, speech_count,
                   is_speaking, calibration_chunks, pc, envVars, histVars>>

\* self.start_audio_stream(); audio_thread.start()
StartProcessing ==
    /\ mainpc = "hotkeys"
    /\ mainpc' = "loop"
    /\ stream' = StreamAfterStart
    /\ opened' = OpenedAfterStart
    /\ pc' = "get"
    /\ UNCHANGED <<config, config_file,
                   listening, running, calibrating, audio_queue,
                   pre_buffer, noise_levels, energy_threshold, last_text,
                   last_text_time, last_typed_text, speech_frames,
                   silence_count, speech_count, is_speaking,
                   calibration_chunks, script, nextSeq, toggles, now,
                   cb_pending, cmdVars, hk_pc, captured, histVars>>

\* KeyboardInterrupt, then the finally block of run()
Shutdown ==
    /\ mainpc = "loop"
    /\ mainpc' = "exit"
    /\ running' = FALSE
    /\ stream' = "none"
    /\ opened' = 0
    /\ UNCHANGED <<config, config_file,
                   listening, calibrating, audio_queue, pre_buffer,
                   noise_levels, energy_threshold, last_text, last_text_time,
                   last_typed_text, speech_frames, silence_count, speech_count,
                   is_speaking, calibration_chunks, pc, script, nextSeq,
                   toggles, now, cb_pending, cmdVars, hk_pc, captured, histVars>>

(***************************************************************************)
(* Hotkey thread: toggle_listening().                                      *)
(***************************************************************************)
RECURSIVE Ids(_)
\* the sequence indices of the frames of a buffer
Ids(frames) == IF frames = <<>> THEN {} ELSE {Head(frames).id} \cup Ids(Tail(frames))

toggle_listening ==
    /\ listening' = ~listening
    /\ stream' = IF ~listening THEN StreamAfterStart ELSE "none"
    /\ opened' = IF ~listening THEN OpenedAfterStart ELSE OpenedAfterStop
    /\ abandoned' = IF listening /\ is_speaking /\ pc # "recognize"
                    THEN abandoned \cup Ids(speech_frames)
                    ELSE abandoned

\* F9 pressed while the listener runs
ToggleListening ==
    /\ mainpc \in {"hotkeys", "loop"}
    /\ toggles < MaxToggles
    /\ toggles' = toggles + 1
    /\ toggle_listening
    /\ UNCHANGED <<config, config_file,
                   running, calibrating, audio_queue, pre_buffer,
                   noise_levels, energy_threshold, last_text, last_text_time,
                   last_typed_text, localVars, script, nextSeq, now,
                   cb_pending, cmdVars, hk_pc, captured, hist, calib_ids, pushed, submitted, discarded,
                   arrivals, typed, calls>>

(***************************************************************************)
(* Capture thread: audio_callback().                                       *)
(***************************************************************************)
\* what the capture device can deliver as its next frame
NextKinds ==
    IF script = <<>>
    THEN IF nextSeq < MaxFrames THEN FrameKinds ELSE {}
    ELSE IF nextSeq < Len(script) THEN {script[nextSeq + 1]} ELSE {}

audio_callback(in_data) ==
    audio_queue' = IF listening \/ calibrating
                   THEN Append(audio_queue, in_data)
                   ELSE audio_queue

\* the open stream delivers a frame
AudioCallback ==
    /\ stream = "open"
    /\ \E kind \in NextKinds : audio_callback(Frame(nextSeq + 1, kind))
    /\ nextSeq' = nextSeq + 1
    /\ UNCHANGED <<config, config_file,
                   listening, running, calibrating, stream, pre_buffer,
                   noise_levels, energy_threshold, last_text, last_text_time,
                   last_typed_text, localVars, script, toggles, now,
                   cb_pending, cmdVars, devVars, histVars>>

(***************************************************************************)
(* Consumer thread: process_audio().                                       *)
(***************************************************************************)
\* calibration_chunks >= calibration_chunks_needed
CalibrationComplete(chunks) == chunks >= calibration_chunks_needed

\* a slip: any speech frame starts an utterance
OnsetReached_AnySpeech(count) == count >= 1

\* speech_count >= speech_threshold
OnsetReached(count) == count >= speech_threshold

\* a slip: silence_count > self.silence_threshold
SilenceElapsed_Strict(count) == count > silence_threshold

\* silence_count >= self.silence_threshold
SilenceElapsed(count) == count >= silence_threshold

\* a slip: len(speech_frames) > self.min_speech_chunks
EnoughSpeech_Strict(frames) == Len(frames) > min_speech_chunks

\* len(speech_frames) >= self.min_speech_chunks
EnoughSpeech(frames) == Len(frames) >= min_speech_chunks

\* if not is_speaking: self.pre_buffer.append(audio_chunk)
PushesToPreBuffer(speaking) == ~speaking

\* a slip: the pre-roll is not cleared at onset
Cleared_Kept(d) == d

\* self.pre_buffer.clear()
Cleared(d) == <<>>

\* a slip: a frame taken during calibration goes to the segmenter
InCalibration_Never == FALSE

\* if self.calibrating:
InCalibration == calibrating

\* the calibration phase of one loop iteration
CalibrationPhase(audio_chunk) ==
    /\ calibration_chunks' = calibration_chunks + 1
    /\ calib_ids' = Append(calib_ids, audio_chunk.id)
    /\ IF CalibrationComplete(calibration_chunks + 1)
       THEN /\ energy_threshold' =
                   IF noise_levels # <<>>
                   THEN Max(EnergyThresholdFloor,
                            Mean(noise_levels) * config.noise_floor_multiplier)
                   ELSE energy_threshold
            /\ calibrating' = FALSE
       ELSE UNCHANGED <<energy_threshold, calibrating>>
    /\ UNCHANGED <<pre_buffer, noise_levels, speech_frames, silence_count,
                   speech_count, is_speaking, pc, hist, pushed, submitted,
                   discarded>>

\* the segmenter part of one loop iteration
Segment(audio_chunk) ==
    LET buffered == IF PushesToPreBuffer(is_speaking)
                    THEN DequeAppend(pre_buffer, audio_chunk, pre_buffer_size)
                    ELSE pre_buffer
        verdict == is_speech(audio_chunk)
        onset == verdict /\ ~is_speaking /\ OnsetReached(speech_count + 1)
        started == IF onset THEN speech_frames \o buffered ELSE speech_frames
        utterance == Append(speech_frames, audio_chunk)
    IN  /\ noise_levels' = NoiseLevelsAfterIsSpeech(audio_chunk)
        /\ hist' = Append(hist, [frame |-> audio_chunk, speech |-> verdict,
                                 speaking |-> is_speaking,
                                 vad_called |-> VadInvoked(audio_chunk)])
        /\ pre_buffer' = IF onset THEN Cleared(buffered) ELSE buffered
        /\ pushed' = IF onset THEN <<>>
                     ELSE IF ~is_speaking THEN Append(pushed, audio_chunk)
                     ELSE pushed
        /\ IF verdict
           THEN /\ speech_count' = speech_count + 1
                /\ is_speaking' = (is_speaking \/ onset)
                /\ speech_frames' = IF is_speaking \/ onset
                                    THEN Append(started, audio_chunk)
                                    ELSE speech_frames
                /\ silence_count' = 0
                /\ UNCHANGED <<pc, submitted, discarded>>
           ELSE IF ~is_speaking
           THEN /\ speech_count' = 0
                /\ UNCHANGED <<is_speaking, speech_frames, silence_count, pc,
                               submitted, discarded>>
           ELSE IF ~SilenceElapsed(silence_count + 1)
           THEN /\ silence_count' = silence_count + 1
                /\ speech_frames' = utterance
                /\ UNCHANGED <<is_speaking, speech_count, pc, submitted,
                               discarded>>
           ELSE IF EnoughSpeech(utterance)
           THEN \* self.recognize_and_type(speech_frames) is entered
                /\ silence_count' = silence_count + 1
                /\ speech_frames' = utterance
                /\ submitted' = Append(submitted, utterance)
                /\ pc' = "recognize"
                /\ UNCHANGED <<is_speaking, speech_count, discarded>>
           ELSE \* too short, ignoring
                /\ discarded' = Append(discarded, utterance)
                /\ speech_frames' = <<>>
                /\ silence_count' = 0
                /\ speech_count' = 0
                /\ is_speaking' = FALSE
                /\ UNCHANGED <<pc, submitted>>

\* one iteration of the while loop, on the frame at the head of the queue
ProcessAudio ==
    /\ pc = "get"
    /\ running
    /\ audio_queue # <<>>
    /\ audio_queue' = Tail(audio_queue)
    /\ IF InCalibration
       THEN CalibrationPhase(Head(audio_queue))
       ELSE /\ Segment(Head(audio_queue))
            /\ UNCHANGED <<calibration_chunks, calib_ids, energy_threshold,
                           calibrating>>
    /\ UNCHANGED <<config, config_file,
                   listening, running, stream, last_text,
                   last_text_time, last_typed_text, mainpc, script, nextSeq,
                   toggles, now, cb_pending, cmdVars, devVars, arrivals, typed, calls, abandoned>>

\* recognize_and_type returns to process_audio, which resets the segmenter
RecognizeAndType ==
    /\ pc = "recognize"
    /\ \E result \in Results(Transcripts), tick \in {0, MaxTick} :
           recognize_and_type(speech_frames, result, tick)
    /\ speech_frames' = <<>>
    /\ silence_count' = 0
    /\ speech_count' = 0
    /\ is_speaking' = FALSE
    /\ pc' = "get"
    /\ UNCHANGED <<config, config_file,
                   listening, running, calibrating, stream,
                   audio_queue, pre_buffer, noise_levels, energy_threshold,
                   calibration_chunks, mainpc, script, nextSeq, toggles,
                   cb_pending, cmdVars, devVars, hist, calib_ids, pushed, submitted, discarded,
                   abandoned>>

\* the while loop ends once self.running is False
ConsumerExit ==
    /\ pc = "get"
    /\ ~running
    /\ pc' = "done"
    /\ UNCHANGED <<progVars, speech_frames, silence_count, speech_count,
                   is_speaking, calibration_chunks, mainpc, envVars, histVars>>

(***************************************************************************)
(* The program.                                                            *)
(***************************************************************************)
Next ==
    \/ SetupHotkeys
    \/ StartProcessing
    \/ Shutdown
    \/ ToggleListening
    \/ AudioCallback
    \/ ProcessAudio
    \/ RecognizeAndType
    \/ ConsumerExit

Spec == Init /\ [][Next]_vars

\* the consumer thread keeps running: a frame in the queue is taken within
\* the 0.1 s of audio_queue.get, and recognize_and_type returns
FairSpec == Spec /\ WF_vars(ProcessAudio) /\ WF_vars(RecognizeAndType)

\* in addition run() goes on to its loop and the device delivers a frame
\* whenever its stream is open
FairDeviceSpec ==
    /\ FairSpec
    /\ WF_vars(SetupHotkeys)
    /\ WF_vars(StartProcessing)
    /\ WF_vars(AudioCallback)

(***************************************************************************)
(* The default configuration on a scripted capture: the user presses F9    *)
(* once before processing starts, the device delivers the calibration      *)
(* window and then a burst of speech followed by silence.                  *)
(***************************************************************************)
\* `n` frames of one kind
Burst(n, kind) == [i \in 1..n |-> kind]

\* the calibration window of the default configuration, in frames
DefaultCalibrationChunks ==
    CalibrationChunksNeeded(DefaultConfig.calibration_duration_ms,
                            DefaultConfig.rate, DefaultConfig.chunk_size)

\* calibration, then `k` frames of speech, then the default trailing silence
ScenarioScript(k) ==
    Burst(DefaultCalibrationChunks, SilenceKind) \o Burst(k, SpeechKind)
        \o Burst(DefaultConfig.silence_threshold_chunks, SilenceKind)

InitScenario == InitWith({DefaultConfig}, {ScenarioScript(5), ScenarioScript(12)})

NextScenario ==
    \/ SetupHotkeys
    \/ (mainpc = "hotkeys" /\ ~listening /\ ToggleListening)
    \/ (listening /\ StartProcessing)
    \/ AudioCallback
    \/ ProcessAudio
    \/ RecognizeAndType

SpecScenario == InitScenario /\ [][NextScenario]_vars

(***************************************************************************)
(* Construction on every configuration file: absent, malformed, or holding *)
(* any part of the settings.                                               *)
(***************************************************************************)
\* the settings of `base` that a file naming only the keys `keys` holds
Settings(base, keys) == [k \in keys |-> base[k]]

\* the files load_config may find
ConfigFiles ==
    {ConfigFile(FALSE, FALSE, <<>>), ConfigFile(TRUE, FALSE, <<>>)}
        \cup {ConfigFile(TRUE, TRUE, Settings(base, keys)) :
                  base \in SmallConfigs \cup {DefaultConfig},
                  keys \in SUBSET (DOMAIN DefaultConfig)}

\* self.config = self.load_config(config_file), in __init__
LoadConfig ==
    /\ mainpc = "init"
    /\ config' = load_config(config_file)
    /\ mainpc' = "start"
    /\ UNCHANGED <<config_file, listening, running, calibrating, stream,
                   audio_queue, pre_buffer, noise_levels, energy_threshold,
                   last_text, last_text_time, last_typed_text, speech_frames,
                   silence_count, speech_count, is_speaking,
                   calibration_chunks, pc, envVars, histVars>>

\* the object at the start of __init__, nothing loaded yet
InitLoadConfig ==
    /\ config_file \in ConfigFiles
    /\ config = <<>>
    /\ mainpc = "init"
    /\ listening = FALSE
    /\ running = TRUE
    /\ calibrating = TRUE
    /\ stream = "none"
    /\ audio_queue = <<>>
    /\ pre_buffer = <<>>
    /\ noise_levels = <<>>
    /\ energy_threshold = InitialEnergyThreshold
    /\ last_text = <<>>
    /\ last_text_time = 0
    /\ last_typed_text = <<>>
    /\ speech_frames = <<>>
    /\ silence_count = 0
    /\ speech_count = 0
    /\ is_speaking = FALSE
    /\ calibration_chunks = 0
    /\ pc = "off"
    /\ script = <<>>
    /\ nextSeq = 0
    /\ toggles = 0
    /\ now = 0
    /\ cb_pending = <<>>
    /\ enabled = DefaultEnableCommands
    /\ cmd_log = <<>>
    /\ opened = 0
    /\ hk_pc = "idle"
    /\ captured = <<>>
    /\ hist = <<>>
    /\ calib_ids = <<>>
    /\ pushed = <<>>
    /\ submitted = <<>>
    /\ discarded = <<>>
    /\ arrivals = <<>>
    /\ typed = <<>>
    /\ calls = <<>>
    /\ abandoned = {}

SpecLoadConfig == InitLoadConfig /\ [][LoadConfig]_vars

(***************************************************************************)
(* CommandHandler.process_text exercised on its own, with commands off     *)
(* (the default) and on (--enable-commands).                               *)
(***************************************************************************)
\* recognized texts: plain, a command, a command with capitals and a full
\* stop, text before a command, a blocked word, a blocked word and a command
CT_hi == <<"h", "i", "!">>
CT_enter == Cmd_enter
CT_Enter == <<"E", "n", "t", "e", "r", ".">>
CT_hi_copy == <<"h", "i", " ", "c", "o", "p", "y">>
CT_sudo == <<"s", "u", "d", "o">>
CT_sudo_enter == <<"s", "u", "d", "o", " ", "e", "n", "t", "e", "r">>
CommandTexts == {CT_hi, CT_enter, CT_Enter, CT_hi_copy, CT_sudo, CT_sudo_enter}

\* self.command_handler.process_text(text)
ProcessText ==
    /\ Len(cmd_log) < MaxCalls
    /\ \E text \in CommandTexts, fails \in BOOLEAN :
           LET r == process_text(text, fails)
           IN  cmd_log' = Append(cmd_log, [text |-> text,
                                           returned |-> r.returned,
                                           keys |-> r.keys])
    /\ UNCHANGED <<progVars, localVars, script, nextSeq, toggles, now,
                   cb_pending, enabled, devVars, histVars>>

\* SecureSpeechKeyboard(enable_commands=...): the default, or the flag given
InitCommands == InitObject({DefaultConfig}, {<<>>}, BOOLEAN)

SpecCommands == InitCommands /\ [][ProcessText]_vars

(***************************************************************************)
(* The capture callback at the grain of its two statements: the test of    *)
(* the flags (line 235) and the put (line 236) are separate steps, and the *)
(* other threads run between them.                                         *)
(***************************************************************************)
\* if self.listening or self.calibrating: the callback decides to put
CallbackTest ==
    /\ stream = "open"
    /\ cb_pending = <<>>
    /\ \E kind \in NextKinds :
           cb_pending' = IF listening \/ calibrating
                         THEN <<Frame(nextSeq + 1, kind)>>
                         ELSE <<>>
    /\ nextSeq' = nextSeq + 1
    /\ UNCHANGED <<progVars, localVars, script, toggles, now, cmdVars, devVars,
                   histVars>>

\* self.audio_queue.put(in_data), by a callback that passed the test
CallbackPut ==
    /\ cb_pending # <<>>
    /\ audio_queue' = Append(audio_queue, cb_pending[1])
    /\ cb_pending' = <<>>
    /\ UNCHANGED <<config, config_file,
                   listening, running, calibrating, stream, pre_buffer,
                   noise_levels, energy_threshold, last_text, last_text_time,
                   last_typed_text, localVars, script, nextSeq, toggles, now,
                   cmdVars, devVars, histVars>>

\* one configuration: calibration takes one frame
CallbackConfig ==
    [DefaultConfig EXCEPT !.pre_buffer_chunks = 1,
                          !.silence_threshold_chunks = 1,
                          !.min_speech_chunks = 2,
                          !.calibration_duration_ms = 40]

InitCallback == InitWith({CallbackConfig}, {<<>>})

NextCallback ==
    \/ SetupHotkeys
    \/ StartProcessing
    \/ Shutdown
    \/ ToggleListening
    \/ CallbackTest
    \/ CallbackPut
    \/ ProcessAudio
    \/ RecognizeAndType
    \/ ConsumerExit

SpecCallback == InitCallback /\ [][NextCallback]_vars

(***************************************************************************)
(* A small configuration on every scripted capture of ScriptLen frames of  *)
(* every kind: loud and quiet calibration frames, frames below the energy  *)
(* gate, frames the detector raises on.                                    *)
(***************************************************************************)
RECURSIVE Scripts(_)
\* every sequence of `n` frame kinds
Scripts(n) ==
    IF n = 0 THEN {<<>>}
    ELSE {Append(sc, kind) : sc \in Scripts(n - 1), kind \in AllFrameKinds}

\* calibration takes one frame, an utterance needs two
FramesConfig ==
    [DefaultConfig EXCEPT !.pre_buffer_chunks = 1,
                          !.silence_threshold_chunks = 1,
                          !.min_speech_chunks = 2,
                          !.calibration_duration_ms = 40]

InitFrames == InitWith({FramesConfig}, Scripts(ScriptLen))

SpecFrames == InitFrames /\ [][NextScenario]_vars

(***************************************************************************)
(* Scripted captures with no pre-roll and min_speech_chunks equal to       *)
(* silence_threshold + 1: the shortest utterance is just long enough.      *)
(***************************************************************************)
TightConfig ==
    [DefaultConfig EXCEPT !.pre_buffer_chunks = 0,
                          !.silence_threshold_chunks = 1,
                          !.min_speech_chunks = 2,
                          !.calibration_duration_ms = 40]

InitTight == InitWith({TightConfig}, Scripts(ScriptLen))

SpecTight == InitTight /\ [][NextScenario]_vars

(***************************************************************************)
(* recognize_and_type exercised on its own: called on a finalized          *)
(* utterance, with every transcript and every clock reading.               *)
(***************************************************************************)
\* an utterance as process_audio hands it over
LoudUtterance ==
    <<Frame(1, SpeechKind), Frame(1, SpeechKind), Frame(2, SilenceKind)>>

CallRecognize ==
    /\ Len(submitted) < MaxCalls
    /\ \E result \in Results(AllTranscripts), tick \in 0..MaxTick :
           recognize_and_type(LoudUtterance, result, tick)
    /\ submitted' = Append(submitted, LoudUtterance)
    /\ UNCHANGED <<config, config_file,
                   listening, running, calibrating, stream,
                   audio_queue, pre_buffer, noise_levels, energy_threshold,
                   localVars, script, nextSeq, toggles, cb_pending, cmdVars, devVars, hist,
                   calib_ids, pushed, discarded, abandoned>>

InitRecognize == InitWith({DefaultConfig}, {<<>>})

SpecRecognize == InitRecognize /\ [][CallRecognize]_vars

(***************************************************************************)
(* recognize_and_type called on loud and on quiet utterances.              *)
(***************************************************************************)
\* an utterance whose every sample is under 0.01
QuietUtterance ==
    <<Frame(1, SilenceKind), Frame(2, SilenceKind), Frame(3, SilenceKind)>>

Utterances == {LoudUtterance, QuietUtterance}

CallRecognizeAny ==
    /\ Len(submitted) < MaxCalls
    /\ \E audio_frames \in Utterances, result \in Outcomes(Transcripts),
          tick \in 0..MaxTick :
           /\ recognize_and_type(audio_frames, result, tick)
           /\ submitted' = Append(submitted, audio_frames)
    /\ UNCHANGED <<config, config_file,
                   listening, running, calibrating, stream,
                   audio_queue, pre_buffer, noise_levels, energy_threshold,
                   localVars, script, nextSeq, toggles, cb_pending, cmdVars, devVars, hist,
                   calib_ids, pushed, discarded, abandoned>>

SpecQuiet == InitRecognize /\ [][CallRecognizeAny]_vars

(***************************************************************************)
(* The capture device. start_audio_stream tests self.stream and then calls *)
(* self.audio.open, which takes time and can raise; run() calls it on the  *)
(* main thread and toggle_listening on the hotkey thread.                  *)
(***************************************************************************)
\* calibration, a voiced frame and the silence that ends the utterance
DeviceScript == <<SilenceKind, SpeechKind, SilenceKind>>

\* self.audio.open(...): it returns a stream, or raises
OpenOutcomes == BOOLEAN

\* run(): start_audio_stream() up to `if self.stream is None`
MainTestStream ==
    /\ mainpc = "hotkeys"
    /\ IF stream = "none"
       THEN mainpc' = "opening" /\ pc' = pc
       ELSE mainpc' = "loop" /\ pc' = "get"
    /\ UNCHANGED <<progVars, speech_frames, silence_count, speech_count,
                   is_speaking, calibration_chunks, envVars, histVars>>

\* run(): self.stream = self.audio.open(...), then audio_thread.start(); an
\* exception of open leaves run(), which has not entered its try block yet
MainOpenStream ==
    /\ mainpc = "opening"
    /\ \E ok \in OpenOutcomes :
           IF ok
           THEN /\ stream' = "open"
                /\ opened' = opened + 1
                /\ mainpc' = "loop"
                /\ pc' = "get"
                /\ running' = running
           ELSE /\ mainpc' = "exit"
                /\ running' = FALSE
                /\ stream' = "none"
                /\ opened' = 0
                /\ pc' = pc
    /\ UNCHANGED <<config, config_file,
                   listening, calibrating, audio_queue, pre_buffer,
                   noise_levels, energy_threshold, last_text, last_text_time,
                   last_typed_text, speech_frames, silence_count, speech_count,
                   is_speaking, calibration_chunks, script, nextSeq,
                   toggles, now, cb_pending, cmdVars, hk_pc, captured, histVars>>

\* toggle_listening up to the call of self.audio.open: the flag is flipped,
\* then stop_audio_stream, or start_audio_stream up to its test
ToggleFlip ==
    /\ mainpc \in {"hotkeys", "opening", "loop"}
    /\ hk_pc = "idle"
    /\ toggles < MaxToggles
    /\ toggles' = toggles + 1
    /\ listening' = ~listening
    /\ IF ~listening
       THEN /\ hk_pc' = IF stream = "none" THEN "opening" ELSE "idle"
            /\ UNCHANGED <<stream, opened>>
       ELSE /\ stream' = "none"
            /\ opened' = OpenedAfterStop
            /\ hk_pc' = "idle"
    /\ abandoned' = IF listening /\ is_speaking /\ pc # "recognize"
                    THEN abandoned \cup Ids(speech_frames)
                    ELSE abandoned
    /\ UNCHANGED <<config, config_file,
                   running, calibrating, audio_queue, pre_buffer,
                   noise_levels, energy_threshold, last_text, last_text_time,
                   last_typed_text, localVars, script, nextSeq, now,
                   cb_pending, cmdVars, captured, hist, calib_ids, pushed, submitted,
                   discarded, arrivals, typed, calls>>

\* toggle_listening: self.stream = self.audio.open(...); an exception of open
\* ends in on_press, `except: pass`
ToggleOpen ==
    /\ hk_pc = "opening"
    /\ hk_pc' = "idle"
    /\ \E ok \in OpenOutcomes :
           IF ok /\ mainpc # "exit"
           THEN stream' = "open" /\ opened' = opened + 1
           ELSE UNCHANGED <<stream, opened>>
    /\ UNCHANGED <<config, config_file,
                   listening, running, calibrating, audio_queue, pre_buffer,
                   noise_levels, energy_threshold, last_text, last_text_time,
                   last_typed_text, localVars, script, nextSeq, toggles, now,
                   cb_pending, cmdVars, captured, histVars>>

NextDevice ==
    \/ SetupHotkeys
    \/ MainTestStream
    \/ MainOpenStream
    \/ Shutdown
    \/ ToggleFlip
    \/ ToggleOpen
    \/ AudioCallback
    \/ ProcessAudio
    \/ RecognizeAndType
    \/ ConsumerExit

InitDevice == InitWith({FramesConfig}, {DeviceScript})

SpecDevice == InitDevice /\ [][NextDevice]_vars

(***************************************************************************)
(* The lite variant (speech_to_keyboard_lite.py, LiteSpeechKeyboard). Of   *)
(* the state it has listening, running, stream, pre_buffer and             *)
(* last_typed_text; its stream is opened without a callback, so captured   *)
(* frames wait in the stream until the program reads them.                 *)
(***************************************************************************)
\* self.false_positives, the entries the texts of the model can equal
LiteFalsePositives == {<<>>, <<".">>, <<"!">>, <<"?">>, T_you}

\* text and text not in self.false_positives and len(text) > 2
LiteAccepts(text) ==
    text # <<>> /\ text \notin LiteFalsePositives /\ Len(text) > 2

\* LiteSpeechKeyboard.recognize_and_type(audio_frames); np.max of an empty
\* array raises ValueError, which the except clause prints
lite_recognize_and_type(audio_frames, result) ==
    LET text == Strip(result.text)
        call == [raised |-> result.raises, text |-> text]
    IN  IF audio_frames = <<>> \/ TooQuiet(audio_frames)
        THEN UNCHANGED <<calls, typed, last_typed_text>>
        ELSE IF result.raises \/ ~LiteAccepts(text) \/ result.type_raises
        THEN /\ calls' = Append(calls, call)
             /\ UNCHANGED <<typed, last_typed_text>>
        ELSE /\ calls' = Append(calls, call)
             /\ typed' = typed \o KeyboardType(
                     [sent |-> TextToType(text, last_typed_text),
                      text |-> text, before |-> last_typed_text,
                      time |-> now, call |-> Len(calls) + 1])
             /\ last_typed_text' = text

\* listener.start(), then the while loop of run()
LiteStart ==
    /\ mainpc = "start"
    /\ mainpc' = "loop"
    /\ UNCHANGED <<progVars, speech_frames, silence_count, speech_count,
                   is_speaking, calibration_chunks, pc, envVars, histVars>>

\* F9, or ESC while listening: LiteSpeechKeyboard.toggle_listening; an
\* exception of self.audio.open ends the listener thread
LiteToggle ==
    /\ mainpc = "loop"
    /\ hk_pc = "idle"
    /\ toggles < MaxToggles
    /\ toggles' = toggles + 1
    /\ listening' = ~listening
    /\ IF ~listening
       THEN \E ok \in OpenOutcomes :
                IF ok
                THEN /\ stream' = "open"
                     /\ opened' = opened + 1
                     /\ UNCHANGED <<hk_pc, captured>>
                ELSE /\ hk_pc' = "done"
                     /\ UNCHANGED <<stream, opened, captured>>
       ELSE /\ stream' = "none"
            /\ opened' = OpenedAfterStop
            /\ captured' = <<>>
            /\ hk_pc' = hk_pc
    /\ UNCHANGED <<config, config_file, running, calibrating, audio_queue,
                   pre_buffer, noise_levels, energy_threshold, last_text,
                   last_text_time, last_typed_text, localVars, script, nextSeq,
                   now, cb_pending, cmdVars, histVars>>

\* the device captures a frame into the open stream
LiteCapture ==
    /\ stream = "open"
    /\ \E kind \in NextKinds :
           captured' = Append(captured, Frame(nextSeq + 1, kind))
    /\ nextSeq' = nextSeq + 1
    /\ UNCHANGED <<progVars, localVars, script, toggles, now, cb_pending,
                   cmdVars, opened, hk_pc, histVars>>

\* one iteration of `while self.running` with self.listening True:
\* self.recognize_and_type(self.pre_buffer)
LiteLoop ==
    /\ mainpc = "loop"
    /\ running
    /\ listening
    /\ Len(submitted) < MaxCalls
    /\ \E result \in Outcomes(Transcripts) :
           lite_recognize_and_type(pre_buffer, result)
    /\ submitted' = Append(submitted, pre_buffer)
    /\ UNCHANGED <<config, config_file, listening, running, calibrating,
                   stream, audio_queue, pre_buffer, noise_levels,
                   energy_threshold, last_text, last_text_time, localVars,
                   envVars, hist, calib_ids, pushed, discarded, arrivals,
                   abandoned>>

\* KeyboardInterrupt, then the finally block of run()
LiteShutdown ==
    /\ mainpc = "loop"
    /\ mainpc' = "exit"
    /\ running' = FALSE
    /\ stream' = "none"
    /\ opened' = 0
    /\ captured' = <<>>
    /\ UNCHANGED <<config, config_file, listening, calibrating, audio_queue,
                   pre_buffer, noise_levels, energy_threshold, last_text,
                   last_text_time, last_typed_text, speech_frames,
                   silence_count, speech_count, is_speaking,
                   calibration_chunks, pc, script, nextSeq,
                   toggles, now, cb_pending, cmdVars, hk_pc, histVars>>

NextLite ==
    \/ LiteStart
    \/ LiteToggle
    \/ LiteCapture
    \/ LiteLoop
    \/ LiteShutdown

InitLite == InitWith({DefaultConfig}, {<<>>})

SpecLite == InitLite /\ [][NextLite]_vars

(***************************************************************************)
(* Reading the histories.                                                  *)
(***************************************************************************)
Last(s) == s[Len(s)]

Front(s) == SubSeq(s, 1, Len(s) - 1)

RECURSIVE TrailingSilentRun(_)
\* how many frames at the end of the history were non-speech frames consumed
\* while Speaking, one after the other
TrailingSilentRun(h) ==
    IF h # <<>> /\ ~Last(h).speech /\ Last(h).speaking
    THEN 1 + TrailingSilentRun(Front(h))
    ELSE 0

RECURSIVE TrailingIdleSpeechRun(_)
\* how many frames at the end of the history were speech frames consumed
\* while Idle, one after the other
TrailingIdleSpeechRun(h) ==
    IF h # <<>> /\ Last(h).speech /\ ~Last(h).speaking
    THEN 1 + TrailingIdleSpeechRun(Front(h))
    ELSE 0

\* this step gave a frame to the segmenter
Segmented == hist' # hist

\* this step consumed, in Speaking, the frame that completes a run of
\* silence_threshold non-speech frames
SilentRunCompleted ==
    Segmented /\ is_speaking /\ TrailingSilentRun(hist') >= silence_threshold

\* the utterance as it stands once this step's frame is in it
UtteranceWithFrame == Append(speech_frames, Last(hist').frame)

(***************************************************************************)
(* C1. Minimum-length enforcement: no utterance shorter than               *)
(* min_speech_chunks is handed to recognize_and_type; an utterance that    *)
(* has at least min_speech_chunks frames when the silence_threshold-th     *)
(* consecutive non-speech frame is consumed in Speaking is handed over in  *)
(* that step, once, and no other step hands anything over; no frame is in  *)
(* two handed-over utterances.                                             *)
(***************************************************************************)
C1_NeverShort ==
    \A i \in 1..Len(submitted) : Len(submitted[i]) >= min_speech_chunks

C1_NeverTwice ==
    \A i, j \in 1..Len(submitted) :
        i # j => Ids(submitted[i]) \cap Ids(submitted[j]) = {}

C1_HandedOnce ==
    IF SilentRunCompleted /\ Len(UtteranceWithFrame) >= min_speech_chunks
    THEN submitted' = Append(submitted, UtteranceWithFrame)
    ELSE submitted' = submitted

\* C1: nothing shorter than min_speech_chunks is handed over, and a long
\* enough utterance is handed over exactly once, when its silent run completes
C1_MinimumLength ==
    /\ [](C1_NeverShort /\ C1_NeverTwice)
    /\ [][C1_HandedOnce]_vars

\* an utterance of exactly min_speech_chunks frames was handed over after a
\* shorter one was discarded
C1_Witness ==
    /\ discarded # <<>>
    /\ \E i \in 1..Len(submitted) : Len(submitted[i]) = min_speech_chunks

(***************************************************************************)
(* C2. Segmenter liveness: in Speaking, once a run of silence_threshold    *)
(* consecutive non-speech frames has been consumed the segmenter does not  *)
(* stay in Speaking: outside recognize_and_type it is never Speaking with  *)
(* such a run behind it, it leaves Speaking only with the utterance        *)
(* buffer empty and both counters 0, and the call of recognize_and_type    *)
(* that the run started leads back to Idle.                                *)
(***************************************************************************)
Idle ==
    /\ ~is_speaking
    /\ speech_frames = <<>>
    /\ silence_count = 0
    /\ speech_count = 0

C2_NoLockup ==
    (is_speaking /\ pc # "recognize")
        => TrailingSilentRun(hist) < silence_threshold

C2_LeavesReset == (is_speaking /\ ~is_speaking') => Idle'

C2_RunConsumed == is_speaking /\ TrailingSilentRun(hist) >= silence_threshold

\* C2: a completed silent run in Speaking always brings the segmenter back
\* to Idle with its buffer and counters reset
C2_SegmenterLiveness ==
    /\ []C2_NoLockup
    /\ [][C2_LeavesReset]_vars
    /\ (C2_RunConsumed ~> Idle)

\* back in Idle after a silent run ended an utterance that was handed over
C2_Witness ==
    /\ Idle
    /\ pc = "get"
    /\ submitted # <<>>
    /\ TrailingSilentRun(hist) >= silence_threshold

(***************************************************************************)
(* C3. Onset hysteresis: a frame consumed in Idle moves the segmenter to   *)
(* Speaking if and only if it is speech-classified and completes a run of  *)
(* at least speech_threshold consecutive speech-classified frames consumed *)
(* in Idle; a non-speech frame consumed in Idle sets speech_count to 0;    *)
(* nothing but a consumed frame starts an utterance.                       *)
(***************************************************************************)
C3_OnsetStep ==
    IF Segmented /\ ~is_speaking
    THEN /\ is_speaking' <=> ( /\ Last(hist').speech
                               /\ TrailingIdleSpeechRun(hist') >= speech_threshold )
         /\ ~Last(hist').speech => speech_count' = 0
    ELSE ~is_speaking => ~is_speaking'

\* C3: Idle -> Speaking exactly on the frame that completes a run of
\* speech_threshold speech frames; a non-speech frame resets the run
C3_OnsetHysteresis == [][C3_OnsetStep]_vars

\* Speaking, after a one-frame spike that did not start an utterance
C3_Witness ==
    /\ is_speaking
    /\ speech_threshold >= 2
    /\ \E i \in 1..(Len(hist) - 1) :
           /\ hist[i].speech /\ ~hist[i].speaking
           /\ ~hist[i + 1].speech /\ ~hist[i + 1].speaking

(***************************************************************************)
(* C4. Utterance length: with onset threshold 1, when the segmenter has    *)
(* consumed, from Idle with an empty pre-roll, k >= 1 speech frames and    *)
(* then silence_threshold non-speech frames, exactly one utterance has     *)
(* been finalized and it holds k + silence_threshold frames (12 speech and *)
(* 30 silent frames: one utterance of 42 frames).                          *)
(***************************************************************************)
\* the verdicts of the frames the segmenter has consumed, in order
Verdicts(h) == [i \in 1..Len(h) |-> h[i].speech]

\* k speech verdicts followed by n non-speech verdicts
SpeechThenSilence(k, n) == [i \in 1..(k + n) |-> i <= k]

\* the utterances finalized so far, handed over or not
Finalized ==
    {submitted[i] : i \in 1..Len(submitted)}
        \cup {discarded[i] : i \in 1..Len(discarded)}

\* C4: k speech frames then silence_threshold silent ones give one utterance
\* of k + silence_threshold frames
C4_UtteranceLength ==
    \A k \in 1..Len(hist) :
        (speech_threshold = 1
         /\ Verdicts(hist) = SpeechThenSilence(k, silence_threshold))
            => /\ Len(submitted) + Len(discarded) = 1
               /\ \A u \in Finalized : Len(u) = k + silence_threshold

(***************************************************************************)
(* C5. With min_speech_chunks = 10, silence_threshold = 30 and onset       *)
(* threshold 1, when the segmenter has consumed, from Idle after           *)
(* calibration, 5 speech frames and then 30 non-speech frames, nothing has *)
(* been handed to recognize_and_type.                                      *)
(***************************************************************************)
\* C5: 5 speech frames then 30 silent ones hand nothing over
C5_ShortBurstIgnored ==
    (speech_threshold = 1
     /\ min_speech_chunks = 10
     /\ silence_threshold = 30
     /\ ~calibrating
     /\ Verdicts(hist) = SpeechThenSilence(5, 30))
        => submitted = <<>>

(***************************************************************************)
(* C6. Turning listening off while Speaking abandons the utterance in      *)
(* progress: no frame that was in the utterance buffer at that moment is   *)
(* ever handed to recognize_and_type, and while listening is on again the  *)
(* utterance buffer holds no such frame.                                   *)
(***************************************************************************)
\* C6: frames buffered when listening went off are never handed over
C6_AbandonedOnToggleOff ==
    /\ \A i \in 1..Len(submitted) : Ids(submitted[i]) \cap abandoned = {}
    /\ listening => Ids(speech_frames) \cap abandoned = {}

(***************************************************************************)
(* C7. Duplicate suppression, as claimed: a transcript that passes the     *)
(* text filter, equals the arrival just before it and comes less than      *)
(* duplicate_threshold after it is rejected; one that equals the arrival   *)
(* just before it and comes at least duplicate_threshold after it is       *)
(* accepted.                                                               *)
(***************************************************************************)
\* C7: the duplicate test measured against the arrival just before
C7_AgainstPreviousArrival ==
    \A i \in 2..Len(arrivals) :
        arrivals[i].text = arrivals[i - 1].text
            => (arrivals[i].accepted
                  <=> arrivals[i].time - arrivals[i - 1].time >= duplicate_threshold)

(***************************************************************************)
(* C7, amended. A transcript that passes the text filter is rejected, and  *)
(* not typed, exactly when it equals the last ACCEPTED transcript and      *)
(* comes less than duplicate_threshold after that one was accepted; every  *)
(* other one is accepted and typed, so identical transcripts at least the  *)
(* window apart are both typed.                                            *)
(***************************************************************************)
\* the arrivals before the i-th that were accepted
AcceptedBefore(i) == {j \in 1..(i - 1) : arrivals[j].accepted}

\* the latest of them
LastAcceptedBefore(i) ==
    CHOOSE j \in AcceptedBefore(i) : \A k \in AcceptedBefore(i) : k <= j

C7_Accepted ==
    \A i \in 1..Len(arrivals) :
        arrivals[i].accepted
            <=> ~( /\ AcceptedBefore(i) # {}
                   /\ arrivals[i].text = arrivals[LastAcceptedBefore(i)].text
                   /\ arrivals[i].time - arrivals[LastAcceptedBefore(i)].time
                          < duplicate_threshold )

\* what was typed is the accepted arrivals, in order
C7_TypedAreAccepted ==
    LET acc == SelectSeq(arrivals, LAMBDA a : a.accepted)
    IN  /\ Len(typed) = Len(acc)
        /\ \A i \in 1..Len(acc) :
               typed[i].text = acc[i].text /\ typed[i].time = acc[i].time

\* C7, amended: the duplicate test measured against the last accepted
\* transcript, and what is typed is exactly what is accepted
C7_AgainstLastAccepted == C7_Accepted /\ C7_TypedAreAccepted

\* a text accepted, rejected within the window, and accepted again less than
\* the window after the rejected arrival
C7_Witness ==
    /\ Len(arrivals) = 3
    /\ arrivals[1].text = arrivals[2].text
    /\ arrivals[2].text = arrivals[3].text
    /\ arrivals[1].accepted /\ ~arrivals[2].accepted /\ arrivals[3].accepted
    /\ arrivals[3].time - arrivals[2].time < duplicate_threshold

(***************************************************************************)
(* C8. Spacing law: the string passed to keyboard_controller.type is the   *)
(* candidate text itself when last_typed_text is empty, the candidate with *)
(* one space before it when the last non-whitespace character of           *)
(* last_typed_text is alphanumeric or one of . ! ? , : ; and the candidate *)
(* itself in every other case.                                             *)
(***************************************************************************)
\* the last non-whitespace character of t is alphanumeric or one of .!?,:;
EndsSpaced(t) ==
    \E i \in 1..Len(t) :
        /\ \A j \in (i + 1)..Len(t) : t[j] = " "
        /\ t[i] # " "
        /\ (IsAlnum(t[i]) \/ t[i] \in {".", "!", "?", ",", ":", ";"})

\* C8: what is sent to the keyboard obeys the spacing law
C8_SpacingLaw ==
    \A i \in 1..Len(typed) :
        typed[i].sent = IF typed[i].before # <<>> /\ EndsSpaced(typed[i].before)
                        THEN <<" ">> \o typed[i].text
                        ELSE typed[i].text

\* typed first with nothing before, then after a letter, then after ")"
C8_Witness ==
    /\ Len(typed) = 3
    /\ typed[1].before = <<>> /\ typed[1].sent = typed[1].text
    /\ IsAlnum(Last(typed[2].before)) /\ typed[2].sent = <<" ">> \o typed[2].text
    /\ Last(typed[3].before) = ")" /\ typed[3].sent = typed[3].text

(***************************************************************************)
(* C9. Ring bound: pre_buffer never holds more than pre_buffer_size        *)
(* frames, and it holds exactly the most recent (up to pre_buffer_size)    *)
(* frames pushed since it was last cleared, in arrival order.              *)
(***************************************************************************)
\* the last n elements of s
LastN(s, n) == SubSeq(s, Len(s) - n + 1, Len(s))

\* C9: pre_buffer is the most recent pre_buffer_size frames pushed
C9_RingBound ==
    /\ Len(pre_buffer) <= pre_buffer_size
    /\ pre_buffer = LastN(pushed, IF Len(pushed) <= pre_buffer_size
                                  THEN Len(pushed) ELSE pre_buffer_size)

\* the ring is full and has evicted its oldest frame
C9_Witness ==
    /\ pre_buffer_size >= 2
    /\ Len(pushed) > pre_buffer_size
    /\ Len(pre_buffer) = pre_buffer_size

(***************************************************************************)
(* C10. Calibration consumes exactly N = int(calibration_duration_seconds  *)
(* * rate / chunk_size) frames (66 for 2 s at 16 kHz and 480 samples):     *)
(* once calibrating is False exactly N frames have gone to calibration,    *)
(* none of them reached the segmenter, and the first frame segmented was   *)
(* taken from the queue after them.                                        *)
(***************************************************************************)
\* C10: calibration takes exactly calibration_chunks_needed frames
C10_CalibrationWindow ==
    /\ DefaultCalibrationChunks = 66
    /\ ~calibrating => Len(calib_ids) = calibration_chunks_needed
    /\ \A i \in 1..Len(hist) : \A j \in 1..Len(calib_ids) :
           hist[i].frame.id # calib_ids[j]
    /\ hist # <<>> =>
           /\ Len(calib_ids) = calibration_chunks_needed
           /\ \A j \in 1..Len(calib_ids) : calib_ids[j] < hist[1].frame.id

(***************************************************************************)
(* C11. During calibration the energy of every frame consumed is appended  *)
(* to noise_levels (at most NoiseLevelsMaxlen entries, oldest evicted):    *)
(* noise_levels is the energies of the most recent calibration frames, in  *)
(* order, and so it is once calibration completes after N >= 1 frames.     *)
(***************************************************************************)
\* the energies of the frames calibration has consumed, on a scripted capture
CalibEnergies == [j \in 1..Len(calib_ids) |-> script[calib_ids[j]].energy]

\* the part of them a ring of NoiseLevelsMaxlen entries still holds
ProfiledEnergies ==
    LastN(CalibEnergies, IF Len(CalibEnergies) <= NoiseLevelsMaxlen
                         THEN Len(CalibEnergies) ELSE NoiseLevelsMaxlen)

\* C11: noise_levels holds the energies of the calibration frames consumed
C11_NoiseProfile == noise_levels = ProfiledEnergies

(***************************************************************************)
(* C12. When calibration completes after at least one frame,               *)
(* energy_threshold is max(0.01, mean of the calibration-frame energies *  *)
(* noise_floor_multiplier).                                                *)
(***************************************************************************)
\* C12: the threshold after calibration is derived from the noise profile
C12_ThresholdFromProfile ==
    (~calibrating /\ calib_ids # <<>>)
        => energy_threshold =
               Max(EnergyThresholdFloor,
                   Mean(ProfiledEnergies) * config.noise_floor_multiplier)

(***************************************************************************)
(* C13. Text filter: nothing is typed for a call whose trimmed transcript  *)
(* is empty, is a member of false_positives (letter case counts), or has   *)
(* length <= min_text_length; every other transcript that is not rejected  *)
(* as a duplicate is typed, as its trimmed text.                           *)
(***************************************************************************)
\* the call of model.transcribe numbered c had its text typed
TypedFor(c) == \E i \in 1..Len(typed) : typed[i].call = c /\ typed[i].text = calls[c].text

\* the call numbered c was rejected as a duplicate
DuplicateFor(c) == \E i \in 1..Len(arrivals) : arrivals[i].call = c /\ ~arrivals[i].accepted

\* C13: a transcript is typed exactly when the text filter lets it through
\* and it is not a duplicate
C13_TextFilter ==
    \A c \in 1..Len(calls) :
        ~calls[c].raised =>
            LET text == calls[c].text
                filtered == \/ text = <<>>
                            \/ text \in config.false_positives
                            \/ Len(text) <= config.min_text_length
            IN  /\ filtered => ~(\E i \in 1..Len(typed) : typed[i].call = c)
                /\ (~filtered /\ ~DuplicateFor(c)) => TypedFor(c)

\* "you" was rejected, "You" was typed, and a two-letter text was rejected
C13_Witness ==
    /\ Len(calls) = 3
    /\ calls[1].text = T_you /\ ~(\E i \in 1..Len(typed) : typed[i].call = 1)
    /\ calls[2].text = T_You /\ TypedFor(2)
    /\ calls[3].text = T_ok /\ ~(\E i \in 1..Len(typed) : typed[i].call = 3)

(***************************************************************************)
(* C14. Two-stage classifier: after calibration a frame whose energy is    *)
(* below energy_threshold * energy_threshold_multiplier is non-speech and  *)
(* the voice-activity detector is not called on it; on every other frame   *)
(* the detector is called, and its verdict is the verdict of is_speech.    *)
(***************************************************************************)
\* C14: the energy gate comes first, the detector decides above it
C14_TwoStage ==
    \A i \in 1..Len(hist) :
        LET f == hist[i].frame
            below == f.energy * 10
                         < energy_threshold * config.energy_threshold_multiplier
        IN  /\ below => (~hist[i].speech /\ ~hist[i].vad_called)
            /\ ~below => /\ hist[i].vad_called
                         /\ ~f.raises => (hist[i].speech <=> f.vad)

\* a quiet frame the detector would have taken for speech was gated out, a
\* loud frame was rejected by the detector, and a loud one accepted
C14_Witness ==
    /\ \E i \in 1..Len(hist) :
           hist[i].frame.vad /\ ~hist[i].vad_called /\ ~hist[i].speech
    /\ \E i \in 1..Len(hist) :
           ~hist[i].frame.vad /\ hist[i].vad_called /\ ~hist[i].speech
    /\ \E i \in 1..Len(hist) : hist[i].vad_called /\ hist[i].speech

(***************************************************************************)
(* C15. Fail-closed classification: a frame the detector raises on is      *)
(* non-speech for the segmenter: in Idle it resets speech_count and starts *)
(* nothing, in Speaking it is appended and counted as silence (or ends the *)
(* utterance), and the consumer goes on.                                   *)
(***************************************************************************)
C15_Step ==
    (Segmented /\ Last(hist').frame.raises /\ Last(hist').vad_called)
        => /\ ~Last(hist').speech
           /\ pc' \in {"get", "recognize"}
           /\ ~is_speaking =>
                  /\ ~is_speaking' /\ speech_count' = 0
                  /\ speech_frames' = speech_frames
           /\ is_speaking =>
                  \/ /\ speech_frames' = UtteranceWithFrame
                     /\ silence_count' = silence_count + 1
                  \/ /\ Idle'
                     /\ discarded' = Append(discarded, UtteranceWithFrame)

\* C15: a frame the detector raises on is handled as a non-speech frame
C15_FailClosed == [][C15_Step]_vars

\* the detector raised on a frame in Speaking, and the frame after it was
\* segmented too
C15_Witness ==
    \E i \in 1..(Len(hist) - 1) :
        hist[i].frame.raises /\ hist[i].vad_called /\ hist[i].speaking

(***************************************************************************)
(* C16. Transcription errors: when model.transcribe raises for an          *)
(* utterance nothing is typed, last_text, last_text_time and               *)
(* last_typed_text keep their values, recognize_and_type returns to        *)
(* process_audio, which resets the segmenter to Idle and goes on with the  *)
(* queue; the utterance is not handed over again.                          *)
(***************************************************************************)
C16_Step ==
    (Len(calls') > Len(calls) /\ Last(calls').raised)
        => /\ UNCHANGED <<last_text, last_text_time, last_typed_text, typed,
                          arrivals, submitted>>
           /\ Idle'
           /\ pc' = "get"

\* no frame of an utterance whose transcription raised is handed over again
C16_NotRetried ==
    \A c \in 1..Len(calls) :
        calls[c].raised =>
            \A j \in 1..Len(submitted) :
                j # c => Ids(submitted[c]) \cap Ids(submitted[j]) = {}

\* C16: a transcription that raises types nothing, changes nothing, and the
\* segmenter goes back to Idle
C16_TranscriptionError == [][C16_Step]_vars /\ []C16_NotRetried

\* after a transcription raised, a later utterance was typed
C16_Witness ==
    /\ Len(calls) = 2
    /\ calls[1].raised
    /\ \E i \in 1..Len(typed) : typed[i].call = 2
    /\ Idle

(***************************************************************************)
(* C17. The hand-off queue is bounded: its capacity is fixed, and a frame  *)
(* delivered to a full queue makes the producer drop a frame. A capture of *)
(* MaxFrames frames overruns every capacity below MaxFrames when the       *)
(* consumer takes nothing, so with any such capacity the queue never holds *)
(* all the frames of the capture.                                          *)
(***************************************************************************)
\* C17: the queue never holds as many frames as the capture delivers
C17_QueueBounded == Len(audio_queue) < MaxFrames

(***************************************************************************)
(* C18. Shutdown: once run() has left its main loop and finished, the      *)
(* capture stream is stopped, the queue is empty and the consumer thread   *)
(* has terminated.                                                         *)
(***************************************************************************)
\* C18: run() returns only with the stream stopped, the queue empty and the
\* consumer finished
C18_ShutdownJoins ==
    mainpc = "exit"
        => /\ stream = "none"
           /\ audio_queue = <<>>
           /\ pc = "done"

(***************************************************************************)
(* C19. While listening is off and calibration is complete no frame is     *)
(* buffered: audio_queue does not grow in a step taken from a state where  *)
(* listening and calibrating are both false.                               *)
(***************************************************************************)
C19_Step ==
    (~listening /\ ~calibrating) => Len(audio_queue') <= Len(audio_queue)

\* C19: the queue never grows while both flags are false
C19_NothingBufferedWhileOff == [][C19_Step]_vars

(***************************************************************************)
(* C20. load_config returns a configuration with every recognized key:     *)
(* the complete defaults when the file is absent or malformed, and the     *)
(* file's settings with the defaults for the keys it lacks when it parses. *)
(***************************************************************************)
\* C20: after load_config every default key is there, missing ones with
\* their default values
C20_CompleteConfig ==
    mainpc # "init"
        => /\ DOMAIN config = DOMAIN DefaultConfig
           /\ ~(config_file.exists /\ config_file.parses)
                  => config = DefaultConfig
           /\ (config_file.exists /\ config_file.parses)
                  => \A k \in DOMAIN DefaultConfig :
                         config[k] = IF k \in DOMAIN config_file.data
                                     THEN config_file.data[k]
                                     ELSE DefaultConfig[k]

(***************************************************************************)
(* C21. Voice commands are off by default, and with enabled = False        *)
(* process_text returns its input unchanged and executes no key action,    *)
(* for a command phrase and for a blocked word as for any other text.      *)
(***************************************************************************)
\* C21: with commands off, process_text is the identity and presses nothing
C21_CommandsOffByDefault ==
    /\ ~DefaultEnableCommands
    /\ ~enabled => \A i \in 1..Len(cmd_log) :
                       /\ cmd_log[i].returned = cmd_log[i].text
                       /\ cmd_log[i].keys = <<>>

\* with commands off, a command phrase and a blocked word came back unchanged
C21_Witness ==
    /\ ~enabled
    /\ \E i \in 1..Len(cmd_log) :
           cmd_log[i].text = CT_Enter /\ cmd_log[i].returned = CT_Enter
    /\ \E i \in 1..Len(cmd_log) :
           cmd_log[i].text = CT_sudo /\ cmd_log[i].returned = CT_sudo

(***************************************************************************)
(* C22. In Idle a speech-classified frame only increments speech_count and *)
(* is not pushed to the pre-roll buffer; only the non-speech frames        *)
(* consumed in Idle are pushed.                                            *)
(***************************************************************************)
\* the most recent n elements of s
Ring(s, n) == LastN(s, IF Len(s) <= n THEN Len(s) ELSE n)

\* a frame consumed in Idle: a speech frame is counted and is not in the
\* pre-roll, be it left in place or moved to the utterance at onset; a
\* non-speech frame is pushed
C22_Step ==
    (Segmented /\ ~is_speaking)
        => LET f == Last(hist').frame
           IN  IF Last(hist').speech
               THEN /\ speech_count' = speech_count + 1
                    /\ IF is_speaking'
                       THEN speech_frames' = speech_frames \o pre_buffer \o <<f>>
                       ELSE pre_buffer' = pre_buffer
               ELSE pre_buffer' = Ring(Append(pre_buffer, f), pre_buffer_size)

\* C22: in Idle only non-speech frames are pushed to the pre-roll
C22_OnlySilencePushed == [][C22_Step]_vars

\* what process_audio does: every frame consumed in Idle is pushed, whatever
\* its verdict, and at onset the pre-roll, the onset frame in it, is moved to
\* the utterance
C22_PushedBeforeVerdict ==
    (Segmented /\ ~is_speaking)
        => LET f == Last(hist').frame
               pushed_to == Ring(Append(pre_buffer, f), pre_buffer_size)
           IN  /\ Last(hist').speech => speech_count' = speech_count + 1
               /\ IF is_speaking'
                  THEN speech_frames' = speech_frames \o pushed_to \o <<f>>
                  ELSE pre_buffer' = pushed_to

C22_EveryIdleFramePushed == [][C22_PushedBeforeVerdict]_vars

(***************************************************************************)
(* C23. No frame is more than once in an utterance handed to               *)
(* recognize_and_type: the sequence indices of its frames are strictly     *)
(* increasing, the onset frame being there once.                           *)
(***************************************************************************)
\* C23: the frames of a handed-over utterance are in strictly increasing order
C23_NoFrameTwice ==
    \A u \in 1..Len(submitted) :
        \A i \in 1..(Len(submitted[u]) - 1) :
            submitted[u][i].id < submitted[u][i + 1].id

(***************************************************************************)
(* C24. The pre-roll buffer is drained once per utterance, at onset, and   *)
(* is empty right after; it is never written in Speaking, so it is empty   *)
(* in every Speaking state and holds only frames consumed in Idle.         *)
(***************************************************************************)
C24_EmptyInSpeaking == is_speaking => pre_buffer = <<>>

C24_OnlyIdleFrames ==
    \A i \in 1..Len(pre_buffer) :
        \E j \in 1..Len(hist) :
            hist[j].frame = pre_buffer[i] /\ ~hist[j].speaking

\* the buffer loses frames other than by eviction only in the onset step,
\* where it goes to the utterance, and the onset step empties it
C24_Step ==
    /\ (~is_speaking /\ is_speaking')
           => /\ pre_buffer' = <<>>
              /\ \E rest \in {<<>>, <<Last(hist').frame>>} :
                     speech_frames' = Ring(Append(pre_buffer, Last(hist').frame),
                                           pre_buffer_size) \o rest
    /\ Len(pre_buffer') < Len(pre_buffer) => (~is_speaking /\ is_speaking')

\* C24: the pre-roll is drained at onset only, and is empty while Speaking
C24_DrainedAtOnset ==
    [](C24_EmptyInSpeaking /\ C24_OnlyIdleFrames) /\ [][C24_Step]_vars

\* Speaking, just after an onset that moved a pre-roll of two frames to the
\* utterance: the pre-roll is empty
C24_Witness ==
    /\ is_speaking
    /\ pre_buffer_size >= 2
    /\ Len(speech_frames) >= 3
    /\ speech_frames[1].id < speech_frames[2].id
    /\ pre_buffer = <<>>

(***************************************************************************)
(* C25. After calibration, process_audio never gives the segmenter a frame *)
(* that was enqueued while listening was False. listening is False until   *)
(* F9 is first pressed, so as long as F9 has not been pressed no frame     *)
(* reaches the segmenter.                                                  *)
(***************************************************************************)
\* C25: with F9 never pressed, the segmenter has been given no frame
C25_NoBacklogSegmented == toggles = 0 => hist = <<>>

(***************************************************************************)
(* C26. No text is typed while listening is False.                         *)
(***************************************************************************)
C26_Step == typed' # typed => listening

\* C26: every step that types is taken with listening True
C26_NoTypingWhileOff == [][C26_Step]_vars

(***************************************************************************)
(* C27. Once calibrating is False it is never True again, and from then on *)
(* energy_threshold and noise_levels are not modified.                     *)
(***************************************************************************)
C27_Step ==
    ~calibrating => /\ ~calibrating'
                    /\ energy_threshold' = energy_threshold
                    /\ noise_levels' = noise_levels

\* C27: calibration is over for good, and so is the noise profile
C27_CalibrationFinal == [][C27_Step]_vars

\* calibration is over and the segmenter has classified a frame since
C27_Witness == ~calibrating /\ hist # <<>>

(***************************************************************************)
(* C28. A frame consumed while calibrating leaves pre_buffer, the          *)
(* utterance buffer, speech_count, silence_count and is_speaking as they   *)
(* were, and no transcription or typing comes of it.                       *)
(***************************************************************************)
\* process_audio takes a frame off the queue while calibrating
CalibrationFrameTaken == calibrating /\ Len(audio_queue') < Len(audio_queue)

C28_Step ==
    CalibrationFrameTaken
        => /\ pre_buffer' = pre_buffer
           /\ speech_frames' = speech_frames
           /\ speech_count' = speech_count
           /\ silence_count' = silence_count
           /\ is_speaking' = is_speaking
           /\ hist' = hist
           /\ submitted' = submitted
           /\ calls' = calls
           /\ typed' = typed
           /\ pc' = pc

\* C28: a calibration frame does not touch the segmenter
C28_CalibrationLeavesSegmenter == [][C28_Step]_vars

\* a speech frame, voiced and loud, was consumed as a calibration frame
C28_Witness ==
    \E i \in 1..Len(calib_ids) : script[calib_ids[i]] = SpeechKind

(***************************************************************************)
(* C29. Calibration completes eventually whatever F9 presses come while    *)
(* calibrating, the device delivering a frame whenever its stream is open. *)
(***************************************************************************)
\* C29: as long as the program runs, calibration comes to its end
C29_CalibrationCompletes == <>(~calibrating \/ ~running)

\* with no F9 press it does
C29_Untoggled == <>(~calibrating \/ ~running \/ toggles > 0)

(***************************************************************************)
(* C30. The quiet-audio check comes before transcription: the engine is    *)
(* not invoked on an utterance whose peak amplitude is under 0.01, and     *)
(* such an utterance types nothing and leaves the duplicate guard and the  *)
(* spacing state as they were.                                             *)
(***************************************************************************)
\* recognize_and_type is called on an utterance with a peak under 0.01
QuietCall ==
    /\ Len(submitted') = Len(submitted) + 1
    /\ MaxPeak(Last(submitted')) < QuietPeak

C30_Step ==
    QuietCall => /\ calls' = calls
                 /\ typed' = typed
                 /\ arrivals' = arrivals
                 /\ last_text' = last_text
                 /\ last_text_time' = last_text_time
                 /\ last_typed_text' = last_typed_text

\* C30: a quiet utterance never reaches the engine and changes nothing
C30_QuietNotTranscribed == [][C30_Step]_vars

\* a quiet utterance came after a text was typed, and no call of the engine
\* was made for it
C30_Witness ==
    /\ Len(submitted) >= 2
    /\ MaxPeak(Last(submitted)) < QuietPeak
    /\ typed # <<>>
    /\ last_typed_text # <<>>
    /\ Len(calls) < Len(submitted)

(***************************************************************************)
(* C31. last_text and last_text_time are updated only when a non-duplicate *)
(* utterance is accepted: a quiet, filtered or duplicate utterance, or one *)
(* whose transcription failed, leaves both as they were; an accepted one   *)
(* sets them to its text and to the time of its acceptance.                *)
(***************************************************************************)
\* the engine returned a text that passes the filter and is no duplicate
AcceptedCall ==
    /\ calls' # calls
    /\ ~Last(calls').raised
    /\ PassesTextFilter(Last(calls').text)
    /\ ~(/\ Last(calls').text = last_text
         /\ now' - last_text_time < duplicate_threshold)

C31_Step ==
    IF AcceptedCall
    THEN last_text' = Last(calls').text /\ last_text_time' = now'
    ELSE last_text' = last_text /\ last_text_time' = last_text_time

\* C31: the duplicate guard moves with accepted utterances only
C31_GuardOnAcceptOnly == [][C31_Step]_vars

\* after an accepted text a duplicate of it was rejected, later on the clock,
\* and the guard still holds the time of the accepted one
C31_Witness ==
    /\ Len(arrivals) >= 2
    /\ ~Last(arrivals).accepted
    /\ arrivals[Len(arrivals) - 1].accepted
    /\ Last(arrivals).time > arrivals[Len(arrivals) - 1].time
    /\ last_text = Last(arrivals).text
    /\ last_text_time = arrivals[Len(arrivals) - 1].time

(***************************************************************************)
(* C32. last_typed_text changes only after a successful injection, and     *)
(* then it is the candidate text without the prepended space; a rejected   *)
(* utterance and a failed injection leave it as it was.                    *)
(***************************************************************************)
C32_Step ==
    IF typed' # typed
    THEN /\ last_typed_text' = Last(typed').text
         /\ Last(typed').text = Last(calls').text
    ELSE last_typed_text' = last_typed_text

\* C32: the spacing state follows successful injections only
C32_SpacingStateOnInjection == [][C32_Step]_vars

\* a text was typed with a space before it and remembered without the space,
\* and an injection that failed afterwards left it there
C32_Witness ==
    /\ typed # <<>>
    /\ Last(typed).sent = <<" ">> \o Last(typed).text
    /\ last_typed_text = Last(typed).text
    /\ arrivals # <<>>
    /\ Last(arrivals).accepted
    /\ Last(arrivals).call > Last(typed).call
    /\ Last(arrivals).text # last_typed_text

(***************************************************************************)
(* C33. When opening the capture stream fails in toggle_listening, capture *)
(* stays paused and the listening flag is not left on: once the toggle has *)
(* finished, listening = True implies that a stream is open. The process   *)
(* keeps running and the next toggle tries to open the stream again.       *)
(***************************************************************************)
\* C33: between toggles, listening on means a stream is open
C33_ListeningImpliesStream ==
    (listening /\ hk_pc = "idle" /\ mainpc \in {"hotkeys", "loop"})
        => stream = "open"

(***************************************************************************)
(* C34. At most one capture stream is open at any time, however the        *)
(* start_audio_stream of run() and those of toggle_listening interleave.   *)
(***************************************************************************)
\* C34: the device never holds two streams open
C34_OneStream == opened <= 1

(***************************************************************************)
(* C35. At every frame boundary of process_audio, both thresholds being at *)
(* least 1: in Idle the utterance buffer is empty, silence_count is 0 and  *)
(* speech_count is below the onset threshold; in Speaking the pre-roll is  *)
(* empty, the utterance buffer is not, and silence_count is below          *)
(* silence_threshold.                                                      *)
(***************************************************************************)
\* process_audio is between two frames, not inside recognize_and_type
FrameBoundary == pc # "recognize"

\* C35: the state of the segmenter between two frames
C35_SegmenterInvariant ==
    (FrameBoundary /\ speech_threshold >= 1 /\ silence_threshold >= 1)
        => IF ~is_speaking
           THEN /\ speech_frames = <<>>
                /\ silence_count = 0
                /\ speech_count < speech_threshold
           ELSE /\ pre_buffer = <<>>
                /\ speech_frames # <<>>
                /\ silence_count < silence_threshold

\* Speaking, one silent frame into the trailing silence, after an onset that
\* took two speech frames in a row
C35_Witness ==
    /\ pc = "get"
    /\ is_speaking
    /\ silence_count = 1
    /\ speech_threshold = 2
    /\ Len(speech_frames) >= 3

InFlight == Len(submitted) - Len(calls)

\* C37: one transcription at a time, typed in the order of finalization
C37_TypedInOrder ==
    /\ InFlight = (IF pc = "recognize" THEN 1 ELSE 0)
    /\ \A i \in 1..Len(typed) :
           /\ typed[i].call \in 1..Len(calls)
           /\ typed[i].text = calls[typed[i].call].text
           /\ \A j \in 1..Len(typed) : i < j => typed[i].call < typed[j].call

\* two utterances were finalized, transcribed and typed one after the other
C37_Witness ==
    /\ Len(typed) >= 2
    /\ typed[1].call < typed[2].call
    /\ Len(submitted) = 2
    /\ submitted[1][1].id < submitted[2][1].id
    /\ InFlight = 0

(***************************************************************************)
(* C38. With voice commands enabled, a recognized text that matches an     *)
(* entry of BLOCKED_PATTERNS is not typed and executes no key command, and *)
(* a key command is executed only for a phrase of SAFE_COMMANDS.           *)
(***************************************************************************)
\* re.search(pattern, text.lower()) succeeds for one of the patterns
MatchesBlocked(text) ==
    \E pat \in BLOCKED_PATTERNS :
        \E k \in 0..(Len(text) - Len(pat)) :
            SubSeq(Lower(text), k + 1, k + Len(pat)) = pat

\* the phrase is in the whitelist and is what the text, cleaned, ends with
WhitelistedIn(text, phrase) ==
    /\ \E i \in 1..Len(SAFE_COMMANDS) : SAFE_COMMANDS[i] = phrase
    /\ EndsWith(RStripPunct(Strip(Lower(text))), phrase)

\* C38: blocked texts do nothing, and only whitelisted phrases press keys
C38_BlockedAndWhitelist ==
    enabled => \A i \in 1..Len(cmd_log) :
                   /\ MatchesBlocked(cmd_log[i].text)
                          => cmd_log[i].returned = <<>> /\ cmd_log[i].keys = <<>>
                   /\ \A k \in 1..Len(cmd_log[i].keys) :
                          WhitelistedIn(cmd_log[i].text, cmd_log[i].keys[k])

\* with commands enabled, a blocked word followed by a command did nothing
\* and a command on its own was executed
C38_Witness ==
    /\ enabled
    /\ \E i \in 1..Len(cmd_log) :
           /\ cmd_log[i].text = CT_sudo_enter
           /\ cmd_log[i].returned = <<>>
           /\ cmd_log[i].keys = <<>>
    /\ \E i \in 1..Len(cmd_log) :
           /\ cmd_log[i].text = CT_Enter
           /\ cmd_log[i].keys = <<Cmd_enter>>

(***************************************************************************)
(* C39. With voice commands enabled, when the recognized text ends with a  *)
(* whitelisted command phrase that has other text before it, the text      *)
(* before the command is typed and the command is executed.                *)
(***************************************************************************)
\* the text is not blocked and ends with the phrase, with text before it
CommandAfterText(text, phrase) ==
    /\ ~MatchesBlocked(text)
    /\ WhitelistedIn(text, phrase)
    /\ Len(RStripPunct(Strip(Lower(text)))) > Len(phrase)

\* C39: the text before a trailing command is typed, and the command executed
C39_TrailingCommand ==
    enabled => \A i \in 1..Len(cmd_log) :
                   \A c \in 1..Len(SAFE_COMMANDS) :
                       CommandAfterText(cmd_log[i].text, SAFE_COMMANDS[c])
                           => /\ cmd_log[i].returned # <<>>
                              /\ cmd_log[i].returned # cmd_log[i].text
                              /\ cmd_log[i].keys = <<SAFE_COMMANDS[c]>>

(***************************************************************************)
(* C40. The lite variant listens continuously: while listening is on, run  *)
(* reads the frames of the capture stream and hands the captured audio,    *)
(* which is not empty, to transcription, so that speech captured while     *)
(* listening can end up typed.                                             *)
(***************************************************************************)
\* recognize_and_type is called while captured frames wait in the stream
CalledWithCaptured == Len(submitted') > Len(submitted) /\ captured # <<>>

C40_Step == CalledWithCaptured => Last(submitted') # <<>>

\* C40: with frames captured, the audio handed to recognize_and_type is not
\* empty
C40_CapturedAudioTranscribed == [][C40_Step]_vars

\* what run() does: no frame ever leaves the stream, the engine is never
\* called and nothing is typed
C40_NothingRead ==
    /\ pre_buffer = <<>>
    /\ stream # "open" => captured = <<>>
    /\ calls = <<>>
    /\ typed = <<>>

====
